---- MODULE Spec2Model ----
(***************************************************************************)
(* Model of the bookmark (outline) filter of Bookmark/Api_bookmark_v1.py   *)
(* (same code in Bookmark/Bookmark_URL_v1.py): remove_filtered_bookmarks   *)
(* with its nested, backward-iterating clean(parent), and bookmark_worker. *)
(*                                                                         *)
(* The outline is the host library's tree: node 0 is the bookmark root,    *)
(* kids[n] is the ordered child list of node n, title[n] is what           *)
(* GetTitle() returns for n.  The recursion of clean is an explicit stack  *)
(* of frames holding clean's local variables.                              *)
(***************************************************************************)
EXTENDS Integers, Sequences, FiniteSets, TLC

\* ------------------------------------------------------------------ bounds
MaxNodes == 4          \* bookmarks below the root
MaxRuns == 2           \* successive filterings of the same document

Nodes == 0..MaxNodes
Root == 0
None == -1             \* Python None for a bookmark handle

\* ------------------------------------------------------------------ titles
NoTitle == <<"None">>  \* GetTitle() returned None

Titles ==
  { <<"x">>, <<"X", "P">> }

\* titles given to the root, which clean never reads
RootTitles ==
  { <<"x">>, <<"X", "P">> }

FilterSpecs ==
  { << <<"P">> >>, << <<"q", "q">>, <<"x">> >> }

\* str.lower() on one character of the modelled alphabet
LowerChar(c) ==
  CASE c = "P" -> "p"
    [] c = "X" -> "x"
    [] c = "Q" -> "q"
    [] OTHER -> c

\* str.lower()
Lower(s) ==
  [k \in 1..Len(s) |-> LowerChar(s[k])]

ContainsAs(f, t) ==
  \E k \in 0..(Len(f) - Len(t)) : SubSeq(f, k + 1, k + Len(t)) = t

\* Python's  f in title  on strings: f occurs as a contiguous substring
Contains(f, t) ==
  \E k \in 0..(Len(t) - Len(f)) : SubSeq(t, k + 1, k + Len(f)) = f

\* filters_lower = [f.lower() for f in filters]
FiltersLower(fs) ==
  [k \in 1..Len(fs) |-> Lower(fs[k])]

TitleLowerAs(t) ==
  IF t = NoTitle THEN <<>> ELSE t

\* (child.GetTitle() or "").lower()
TitleLower(t) ==
  Lower(IF t = NoTitle THEN <<>> ELSE t)

AnyMatchAs(tl, fl) ==
  \A k \in 1..Len(fl) : Contains(fl[k], tl)

\* any(f in title for f in filters_lower)
AnyMatch(tl, fl) ==
  \E k \in 1..Len(fl) : Contains(fl[k], tl)

\* ------------------------------------------------------- host tree (PDFix)
\* parent.GetNumChildren()
GetNumChildren(k, p) ==
  Len(k[p])

\* parent.GetChild(i): none when the index is out of range
GetChild(k, p, i) ==
  IF i >= 0 /\ i < Len(k[p]) THEN k[p][i + 1] ELSE None

InsertAt(s, idx, x) ==
  SubSeq(s, 1, idx) \o <<x>> \o SubSeq(s, idx + 1, Len(s))

RemoveAt(s, idx) ==
  SubSeq(s, 1, idx) \o SubSeq(s, idx + 2, Len(s))

Without(s, x) ==
  SelectSeq(s, LAMBDA y : y # x)

\* parent.AddChild(index, sub).  The library is not part of the repository:
\* moves = TRUE is a host that unlinks sub from its previous parent
\* (re-parenting), moves = FALSE a host that only inserts the handle.
AddChild(k, p, idx, sub, moves) ==
  LET k1 == IF moves THEN [n \in Nodes |-> Without(k[n], sub)] ELSE k
  IN  [k1 EXCEPT ![p] = InsertAt(k1[p], idx, sub)]

\* parent.RemoveChild(index), for a valid index
RemoveChild(k, p, idx) ==
  [k EXCEPT ![p] = RemoveAt(k[p], idx)]

\* ------------------------------------------------------------------- state
VARIABLES
  kids,        \* host tree: child list of every bookmark
  title,       \* GetTitle() of every bookmark
  hasRoot,     \* doc.GetBookmarkRoot() is not None
  filters,     \* the filters argument
  hostMoves,   \* AddChild re-parents (see AddChild)
  pc,          \* position in remove_filtered_bookmarks / bookmark_worker
  stack,       \* frames of clean, innermost last
  q,           \* the worker's result queue
  calls,       \* AddChild + RemoveChild calls made in this run
  tested,      \* bookmarks whose title has been tested in this run
  lastOp,      \* the most recent host mutation of this run
  kids0,       \* the tree as opened in this run
  run,         \* number of the current filtering run
  log,         \* the AddChild / RemoveChild calls of this run, in order
  skipped,     \* bookmarks a failing GetChild did not hand out
  kidsB,       \* the tree the backward clean left, kept for comparison
  mt,          \* one evaluation of the title test
  req,         \* the filter_bookmarks requests
  fs,          \* the files of UPLOAD_FOLDER
  now,         \* the clock second datetime.now() shows
  pl           \* one call of PageNumberSetter.set_page_labels

\* the state of remove_filtered_bookmarks and bookmark_worker
core == <<kids, title, hasRoot, filters, hostMoves, pc, stack, q, calls,
          tested, lastOp, kids0, run, log>>

\* the state the bookmark filter itself never touches
core_but_stack == <<kids, title, hasRoot, filters, hostMoves, pc, q, calls,
                    tested, lastOp, kids0, run, log>>
ext == <<skipped, kidsB, mt, req, fs, now, pl>>

vars == <<core, ext>>

\* ------------------------------------------------------------ input trees
\* Ordered trees on the nodes 0..n numbered in pre-order: the parent of k is
\* k-1 or one of its ancestors.
RECURSIVE IsAncOrSelf(_, _, _)
IsAncOrSelf(par, a, b) ==
  IF a = b THEN TRUE
  ELSE IF b = 0 THEN FALSE
  ELSE IsAncOrSelf(par, a, par[b])

PreOrdered(par, n) ==
  /\ \A k \in 1..n : par[k] < k
  /\ \A k \in 1..n : IsAncOrSelf(par, par[k], k - 1)

RECURSIVE ChildrenUpTo(_, _, _)
ChildrenUpTo(par, p, m) ==
  IF m = 0 THEN <<>>
  ELSE IF par[m] = p THEN Append(ChildrenUpTo(par, p, m - 1), m)
  ELSE ChildrenUpTo(par, p, m - 1)

KidsOf(par, n) ==
  [p \in Nodes |-> IF p <= n THEN ChildrenUpTo(par, p, n) ELSE <<>>]

\* ---------------------------------------------------------- frames of clean
FirstIndexAs(count) ==
  count - 2

\* range(count - 1, -1, -1) starts at the last child
FirstIndex(count) ==
  count - 1

\* clean(parent): count = parent.GetNumChildren(); for i in range(count-1,-1,-1)
Frame(k, p) ==
  [parent |-> p, count |-> GetNumChildren(k, p),
   i |-> FirstIndex(GetNumChildren(k, p)), phase |-> "loop", child |-> None,
   grandchildren |-> <<>>, j |-> 1, insert_pos |-> 0,
   snap |-> <<>>, csnap |-> <<>>]   \* snap, csnap: history of the lists at test time

Top == stack[Len(stack)]

SetTop(f) ==
  [stack EXCEPT ![Len(stack)] = f]

\* a collection loop that stops one child short
GrandchildrenAs(k, c) ==
  LET gc_count == GetNumChildren(k, c) - 1
      all == [m \in 1..gc_count |-> GetChild(k, c, m - 1)]
  IN  SelectSeq(all, LAMBDA s : s # None)

\* grandchildren = [child.GetChild(j) for j in range(gc_count) if not None]
Grandchildren(k, c) ==
  LET gc_count == GetNumChildren(k, c)
      all == [m \in 1..gc_count |-> GetChild(k, c, m - 1)]
  IN  SelectSeq(all, LAMBDA s : s # None)

InsertPosAs(i) ==
  i

\* insert_pos = i + 1
InsertPos(i) ==
  i + 1

TestedNodeAs(f) ==
  f.parent

\* the bookmark whose title clean tests: child.GetTitle()
TestedNode(f) ==
  f.child

ResultAs(ok, err) ==
  [success |-> FALSE, error |-> err]

\* bookmark_worker: q.put({"success": ..., "error": ...})
Result(ok, err) ==
  [success |-> ok, error |-> err]

\* ------------------------------------------------------------------- Init
\* nothing but the bookmark filter is running
ExtIdle ==
  /\ skipped = {}
  /\ kidsB = [n \in Nodes |-> <<>>]
  /\ mt = [step |-> "idle"]
  /\ req = <<>>
  /\ fs = {}
  /\ now = 0
  /\ pl = [step |-> "idle"]

\* no document is being filtered
CoreIdle ==
  /\ kids = [n \in Nodes |-> <<>>]
  /\ title = [n \in Nodes |-> NoTitle]
  /\ hasRoot = FALSE
  /\ filters = <<>>
  /\ hostMoves = FALSE
  /\ pc = "idle"
  /\ stack = <<>>
  /\ q = <<>>
  /\ calls = 0
  /\ tested = {}
  /\ lastOp = "none"
  /\ kids0 = kids
  /\ run = 1
  /\ log = <<>>

Init ==
  /\ \E n \in 0..MaxNodes :
       \E par \in [1..n -> 0..MaxNodes] :
         /\ PreOrdered(par, n)
         /\ kids = KidsOf(par, n)
         /\ \E tt \in [1..n -> Titles] : \E rt \in RootTitles :
              title = [m \in Nodes |-> IF m = Root THEN rt
                                       ELSE IF m <= n THEN tt[m] ELSE NoTitle]
         /\ hasRoot \in (IF n = 0 THEN BOOLEAN ELSE {TRUE})
  /\ filters \in FilterSpecs
  /\ hostMoves \in BOOLEAN
  /\ pc = "open"
  /\ stack = <<>>
  /\ q = <<>>
  /\ calls = 0
  /\ tested = {}
  /\ lastOp = "none"
  /\ kids0 = kids
  /\ run = 1
  /\ log = <<>>
  /\ ExtIdle

\* ---------------------------------------------------------------- actions
\* pdfix.OpenDoc(input_pdf, ""): a None document raises, the worker reports it
OpenDoc ==
  /\ pc = "open"
  /\ \E ok \in BOOLEAN :
       IF ok
       THEN pc' = "root" /\ q' = q
       ELSE pc' = "failed" /\ q' = Append(q, Result(FALSE, "Failed to open PDF"))
  /\ UNCHANGED <<kids, title, hasRoot, filters, hostMoves, stack, calls,
                 tested, lastOp, kids0, run>>
  /\ UNCHANGED <<log, ext>>

\* root = doc.GetBookmarkRoot(); if root is not None: ... clean(root)
GetBookmarkRoot ==
  /\ pc = "root"
  /\ IF hasRoot
     THEN pc' = "clean" /\ stack' = <<Frame(kids, Root)>>
     ELSE pc' = "save" /\ stack' = stack
  /\ UNCHANGED <<kids, title, hasRoot, filters, hostMoves, q, calls, tested,
                 lastOp, kids0, run>>
  /\ UNCHANGED <<log, ext>>

\* the for loop is exhausted: clean returns to its caller
Return ==
  /\ pc = "clean"
  /\ Top.phase = "loop"
  /\ Top.i < 0
  /\ stack' = SubSeq(stack, 1, Len(stack) - 1)
  /\ pc' = IF Len(stack) = 1 THEN "save" ELSE "clean"
  /\ UNCHANGED <<kids, title, hasRoot, filters, hostMoves, q, calls, tested,
                 lastOp, kids0, run>>
  /\ UNCHANGED <<log, ext>>

\* child = parent.GetChild(i); skip a None child, else recurse: clean(child)
Visit ==
  /\ pc = "clean"
  /\ Top.phase = "loop"
  /\ Top.i >= 0
  /\ LET c == GetChild(kids, Top.parent, Top.i)
     IN  IF c = None
         THEN stack' = SetTop([Top EXCEPT !.i = @ - 1, !.child = None])
         ELSE stack' = Append(SetTop([Top EXCEPT !.child = c,
                                                 !.phase = "test"]),
                              Frame(kids, c))
  /\ UNCHANGED <<kids, title, hasRoot, filters, hostMoves, pc, q, calls,
                 tested, lastOp, kids0, run>>
  /\ UNCHANGED <<log, ext>>

\* title test after the recursion; on a match collect the grandchildren
TestTitle ==
  /\ pc = "clean"
  /\ Top.phase = "test"
  /\ LET t == TestedNode(Top)
     IN  /\ tested' = tested \cup {t}
         /\ IF AnyMatch(TitleLower(title[t]), FiltersLower(filters))
            THEN stack' = SetTop([Top EXCEPT
                     !.grandchildren = Grandchildren(kids, Top.child),
                     !.j = 1,
                     !.insert_pos = InsertPos(Top.i),
                     !.snap = kids[Top.parent],
                     !.csnap = kids[Top.child],
                     !.phase = "add"])
            ELSE stack' = SetTop([Top EXCEPT !.i = @ - 1, !.phase = "loop"])
  /\ UNCHANGED <<kids, title, hasRoot, filters, hostMoves, pc, q, calls,
                 lastOp, kids0, run>>
  /\ UNCHANGED <<log, ext>>

\* parent.AddChild(insert_pos, sub); insert_pos += 1
Promote ==
  /\ pc = "clean"
  /\ Top.phase = "add"
  /\ Top.j <= Len(Top.grandchildren)
  /\ kids' = AddChild(kids, Top.parent, Top.insert_pos,
                      Top.grandchildren[Top.j], hostMoves)
  /\ stack' = SetTop([Top EXCEPT !.insert_pos = @ + 1, !.j = @ + 1])
  /\ calls' = calls + 1
  /\ lastOp' = "AddChild"
  /\ log' = Append(log, <<"AddChild", Top.parent, Top.insert_pos,
                          Top.grandchildren[Top.j]>>)
  /\ UNCHANGED <<title, hasRoot, filters, hostMoves, pc, q, tested, kids0,
                 run>>
  /\ UNCHANGED ext

\* a loop that reads index i again after the removal
RemoveFilteredAs ==
  /\ pc = "clean"
  /\ Top.phase = "add"
  /\ Top.j > Len(Top.grandchildren)
  /\ calls' = calls + 1
  /\ lastOp' = "RemoveChild"
  /\ log' = Append(log, <<"RemoveChild", Top.parent, Top.i>>)
  /\ kids' = RemoveChild(kids, Top.parent, Top.i)
  /\ stack' = SetTop([Top EXCEPT !.phase = "loop"])
  /\ UNCHANGED <<pc, q, title, hasRoot, filters, hostMoves, tested, kids0, run>>
  /\ UNCHANGED ext

\* parent.RemoveChild(i); an invalid index raises out of clean
RemoveFiltered ==
  /\ pc = "clean"
  /\ Top.phase = "add"
  /\ Top.j > Len(Top.grandchildren)
  /\ calls' = calls + 1
  /\ lastOp' = "RemoveChild"
  /\ log' = Append(log, <<"RemoveChild", Top.parent, Top.i>>)
  /\ IF Top.i < GetNumChildren(kids, Top.parent)
     THEN /\ kids' = RemoveChild(kids, Top.parent, Top.i)
          /\ stack' = SetTop([Top EXCEPT !.i = @ - 1, !.phase = "loop"])
          /\ pc' = pc
          /\ q' = q
     ELSE /\ kids' = kids
          /\ stack' = <<>>
          /\ pc' = "failed"
          /\ q' = Append(q, Result(FALSE, "RemoveChild failed"))
  /\ UNCHANGED <<title, hasRoot, filters, hostMoves, tested, kids0, run>>
  /\ UNCHANGED ext

\* doc.Save(output_pdf, kSaveFull); doc.Close(); the worker's q.put
Save ==
  /\ pc = "save"
  /\ \E ok \in BOOLEAN :
       IF ok
       THEN pc' = "done" /\ q' = Append(q, Result(TRUE, "None"))
       ELSE pc' = "failed" /\ q' = Append(q, Result(FALSE, "Save failed"))
  /\ UNCHANGED <<kids, title, hasRoot, filters, hostMoves, stack, calls,
                 tested, lastOp, kids0, run>>
  /\ UNCHANGED <<log, ext>>

\* the bookmarks the document holds: those reachable from the root
RECURSIVE Closure(_, _, _)
Closure(k, s, fuel) ==
  LET nxt == s \cup UNION {{k[n][m] : m \in 1..Len(k[n])} : n \in s}
  IN  IF fuel = 0 \/ nxt = s THEN s ELSE Closure(k, nxt, fuel - 1)

Reach(k) ==
  Closure(k, {Root}, MaxNodes + 1)

\* the saved output is uploaded and filtered again with the same filters
Refilter ==
  /\ pc = "done"
  /\ run < MaxRuns
  /\ run' = run + 1
  /\ kids' = [n \in Nodes |-> IF n \in Reach(kids) THEN kids[n] ELSE <<>>]
  /\ kids0' = kids'
  /\ pc' = "open"
  /\ stack' = <<>>
  /\ q' = <<>>
  /\ calls' = 0
  /\ tested' = {}
  /\ lastOp' = "none"
  /\ log' = <<>>
  /\ UNCHANGED <<title, hasRoot, filters, hostMoves>>
  /\ UNCHANGED ext

Next ==
  \/ OpenDoc
  \/ GetBookmarkRoot
  \/ Return
  \/ Visit
  \/ TestTitle
  \/ Promote
  \/ RemoveFiltered
  \/ Save
  \/ Refilter

Spec == Init /\ [][Next]_vars
\* ------------------------------------------------------------ vocabulary
\* f is t[a..b] for some a, b (b = a - 1 gives the empty string)
HasSubstring(t, f) ==
  \E a \in 1..(Len(t) + 1) : \E b \in (a - 1)..Len(t) : SubSeq(t, a, b) = f

\* the label of n matches the FilterSpec: lower-cased, it has a lower-cased
\* pattern as a substring; an absent label is the empty string
Matched(n) ==
  \E k \in 1..Len(filters) :
    HasSubstring(Lower(IF title[n] = NoTitle THEN <<>> ELSE title[n]),
                 Lower(filters[k]))

\* clean(root) has returned (or there was no root to clean)
AfterClean ==
  pc \in {"save", "done"}

RECURSIVE Flatten(_)
Flatten(ss) ==
  IF ss = <<>> THEN <<>> ELSE Head(ss) \o Flatten(Tail(ss))

\* depth-first pre-order of the tree k below n
RECURSIVE PreOrder(_, _, _)
PreOrder(k, n, fuel) ==
  IF fuel = 0 THEN <<n>>
  ELSE <<n>> \o Flatten([m \in 1..Len(k[n]) |-> PreOrder(k, k[n][m], fuel - 1)])

Range(s) ==
  {s[m] : m \in 1..Len(s)}

\* the bottom-up reference: the child list Filter(n) gives to n
RECURSIVE FilterKids(_, _)
FilterKids(n, fuel) ==
  IF fuel = 0 THEN <<>>
  ELSE Flatten([m \in 1..Len(kids0[n]) |->
                  LET c == kids0[n][m]
                  IN  IF Matched(c) THEN FilterKids(c, fuel - 1) ELSE <<c>>])

RefTree ==
  [n \in Nodes |-> FilterKids(n, MaxNodes + 1)]

MatchedBelowRoot ==
  {n \in Reach(kids0) \ {Root} : Matched(n)}

\* ------------------------------------------------------------------ C1
\* C1: after clean(root) returns, the tree is the bottom-up reference
\* result: the same nodes are reachable and every reachable node has the
\* child list Filter assigns to it.
C1_EqualsReference ==
  (AfterClean /\ hasRoot) =>
    LET r == RefTree
    IN  /\ Reach(kids) = Reach(r)
        /\ \A n \in Reach(r) : kids[n] = r[n]

\* a matched node with children under a matched parent has been cleaned
C1_Witness ==
  /\ AfterClean
  /\ run = 1
  /\ \E a \in Nodes \ {Root} : \E b \in Range(kids0[a]) :
       Matched(a) /\ Matched(b) /\ Len(kids0[b]) >= 1 /\ Len(kids0[a]) >= 2

\* ------------------------------------------------------------------ C2
\* C2 (P1): after clean(root) returns, no node reachable from the root other
\* than the root has a lower-cased label containing a lower-cased pattern.
C2_NoMatchSurvives ==
  AfterClean => \A n \in Reach(kids) \ {Root} : ~Matched(n)

\* matched nodes existed, at two levels, and the root's own label matches
C2_Witness ==
  /\ AfterClean
  /\ Matched(Root)
  /\ \E a \in MatchedBelowRoot : \E b \in MatchedBelowRoot : b \in Range(kids0[a])
  /\ Cardinality(Reach(kids)) >= 2

\* ------------------------------------------------------------------ C3
\* C3 (P6): after clean(root) returns, the number of nodes in the tree is the
\* original number minus the matched non-root nodes; no non-matching node is
\* lost and no node occurs twice.
C3_CountAccounting ==
  AfterClean =>
    LET po == PreOrder(kids, Root, MaxNodes + 1)
    IN  /\ Len(po) = Cardinality(Reach(kids0)) - Cardinality(MatchedBelowRoot)
        /\ Reach(kids0) \ MatchedBelowRoot \subseteq Range(po)
        /\ Cardinality(Range(po)) = Len(po)

\* some nodes removed, some promoted survivors
C3_Witness ==
  /\ AfterClean
  /\ Cardinality(MatchedBelowRoot) >= 2
  /\ Cardinality(Reach(kids)) >= 3
  /\ \E a \in MatchedBelowRoot : \E x \in Range(kids0[a]) : ~Matched(x)

\* ------------------------------------------------------------------ C4
\* C4 (P2): when RemoveChild detaches the matched child C at index i of a
\* parent, the parent's list becomes its list at test time with C replaced,
\* in place, by C's already filtered children in their order: the siblings
\* before C stay before them and the siblings after C stay after them.
C4_PromotedInPlace ==
  [][(RemoveFiltered /\ pc' = "clean") =>
       LET f == Top
       IN  kids'[f.parent] = SubSeq(f.snap, 1, f.i) \o f.csnap
                             \o SubSeq(f.snap, f.i + 2, Len(f.snap))]_vars

\* a matched child between two siblings has just been replaced by its
\* children
C4_Witness ==
  /\ pc = "clean"
  /\ lastOp = "RemoveChild"
  /\ Top.phase = "loop"
  /\ Top.child # None
  /\ Top.i >= 0
  /\ Len(Top.snap) >= Top.i + 3
  /\ Len(Top.csnap) >= 1
  /\ Top.snap[Top.i + 2] = Top.child
  /\ Len(kids[Top.parent]) = Len(Top.snap) - 1 + Len(Top.csnap)

\* ------------------------------------------------------------------ C5
\* C5: the pre-order sequence of the tree after clean(root) is the original
\* pre-order sequence with the matched nodes deleted, and every surviving
\* node is reachable from the root.
C5_PreOrderPreserved ==
  AfterClean =>
    /\ PreOrder(kids, Root, MaxNodes + 1)
         = SelectSeq(PreOrder(kids0, Root, MaxNodes + 1),
                     LAMBDA n : n = Root \/ ~Matched(n))
    /\ Reach(kids0) \ MatchedBelowRoot \subseteq Reach(kids)

\* survivors from different depths were interleaved with removed nodes
C5_Witness ==
  /\ AfterClean
  /\ run = 1
  /\ Cardinality(MatchedBelowRoot) >= 2
  /\ \E a \in MatchedBelowRoot :
       /\ Len(kids0[a]) >= 2
       /\ \E x \in Range(kids0[a]) : ~Matched(x)
  /\ \E s \in Range(kids0[Root]) : ~Matched(s)
\* ------------------------------------------------------------ tree shape
\* number of places x occupies in the child lists of the nodes in R
Occurrences(k, R, x) ==
  Cardinality({pr \in UNION {{<<n, m>> : m \in 1..Len(k[n])} : n \in R} :
                 k[pr[1]][pr[2]] = x})

\* no node of the tree is its own ancestor
Acyclic(k) ==
  \A n \in Reach(k) : n \notin Closure(k, Range(k[n]), MaxNodes + 1)

\* no node of the tree is held by two child lists, or twice by one
NoSharedChild(k) ==
  \A x \in Reach(k) : Occurrences(k, Reach(k), x) <= 1

ProperTree(k) ==
  /\ \A x \in Reach(k) \ {Root} : Occurrences(k, Reach(k), x) = 1
  /\ Occurrences(k, Reach(k), Root) = 0
  /\ Acyclic(k)

\* ------------------------------------------------------------------ C6
\* C6 (P4): filtering a tree that has no matching node below the root makes
\* no AddChild and no RemoveChild call and leaves the tree as it was; this
\* covers the second filtering of an already filtered document.
C6_Idempotent ==
  (MatchedBelowRoot = {}) => (calls = 0 /\ lastOp = "none" /\ kids = kids0)

\* the output of a filtering that removed node 1 has been filtered again
C6_Witness ==
  /\ run = 2
  /\ AfterClean
  /\ 1 \notin Reach(kids0)
  /\ Cardinality(Reach(kids0)) >= 3
  /\ Cardinality(tested) >= 2

\* ------------------------------------------------------------------ C7
\* C7 (P5): after clean(root) returns the structure is a proper rooted tree:
\* every surviving non-root node is in exactly one child list exactly once,
\* the root is in none, and no node is its own ancestor.
C7_ProperTree ==
  AfterClean => ProperTree(kids)

\* children of two removed nodes were re-attached
C7_Witness ==
  /\ AfterClean
  /\ calls >= 4
  /\ Cardinality(MatchedBelowRoot) >= 2
  /\ Cardinality(Reach(kids)) >= 3

\* ------------------------------------------------------------------ C8
\* C8: after every single AddChild or RemoveChild call of clean, no node is
\* a child of two parents and the structure is acyclic.
C8_TreeAtEveryStep ==
  (lastOp \in {"AddChild", "RemoveChild"}) =>
    (NoSharedChild(kids) /\ Acyclic(kids))

\* ------------------------------------------------------------------ C9
\* C9: the root's title is never tested and the root is never removed: it
\* is in no child list, it is never the child clean tests or detaches, and
\* clean's outermost call is on it, whatever its label is.
C9_RootUntouched ==
  /\ Root \notin tested
  /\ \A n \in Nodes : Root \notin Range(kids[n])
  /\ (pc = "clean" => stack[1].parent = Root)
  /\ \A d \in 1..Len(stack) : stack[d].child # Root

\* a root with a matching label kept its place while descendants went
C9_Witness ==
  /\ AfterClean
  /\ Matched(Root)
  /\ calls >= 2
  /\ Cardinality(tested) >= 2
  /\ kids[Root] # <<>>
\* ----------------------------------------------------------------- C10
\* GetBookmarkRoot returned none, or the root has no children
EmptyOutline ==
  ~hasRoot \/ kids0[Root] = <<>>

\* C10: with no bookmark root, or a root without children, the filter makes
\* no AddChild/RemoveChild call, clean raises nothing, control goes on to
\* doc.Save, and a successful save is reported as success.
C10_EmptyOutlineNoOp ==
  /\ [](EmptyOutline =>
          /\ calls = 0 /\ lastOp = "none" /\ kids = kids0
          /\ \A m \in 1..Len(q) : q[m].error # "RemoveChild failed"
          /\ (pc = "done" => q = <<[success |-> TRUE, error |-> "None"]>>))
  /\ [][(EmptyOutline /\ pc = "root") => pc' \in {"clean", "save"}]_vars
  /\ [][(EmptyOutline /\ pc = "clean") => pc' = "save"]_vars

\* a document without a bookmark root was saved and reported
C10_Witness ==
  /\ ~hasRoot
  /\ pc = "done"
  /\ Len(q) = 1
  /\ calls = 0
\* ======================================================================
\* The title test on its own: one evaluation of
\*   title = (child.GetTitle() or "").lower()
\*   any(f in title for f in filters_lower)
\* for titles and filter lists drawn from small alphabets.
MaxTitleLen == 2       \* characters in a title
MaxPatLen == 2         \* characters in a pattern
MaxFilters == 2        \* patterns in a filter list

SeqsUpTo(A, L) ==
  UNION {[1..k -> A] : k \in 0..L}

\* what GetTitle() may return: None, "" or a short string
MatchTitles ==
  {NoTitle} \cup SeqsUpTo({"x", "X", "p"}, MaxTitleLen)

MatchPatterns ==
  SeqsUpTo({"p", "X"}, MaxPatLen)

MatchFilters ==
  SeqsUpTo(MatchPatterns, MaxFilters)

InitMatch ==
  /\ CoreIdle
  /\ skipped = {}
  /\ kidsB = [n \in Nodes |-> <<>>]
  /\ \E t \in MatchTitles : \E fl \in MatchFilters :
       mt = [step |-> "ready", title |-> t, filters |-> fl, res |-> FALSE]
  /\ req = <<>>
  /\ fs = {}
  /\ now = 0
  /\ pl = [step |-> "idle"]

\* lines 25, 41, 42 of clean on the title and the filters at hand
TestMatch ==
  /\ mt.step = "ready"
  /\ mt' = [mt EXCEPT !.step = "done",
                      !.res = AnyMatch(TitleLower(mt.title),
                                       FiltersLower(mt.filters))]
  /\ UNCHANGED <<core, skipped, kidsB, req, fs, now, pl>>

NextMatch ==
  TestMatch

SpecMatch == InitMatch /\ [][NextMatch]_vars

\* the same letter, in either case
SameLetter(c, d) ==
  \/ c = d
  \/ {c, d} = {"x", "X"}
  \/ {c, d} = {"p", "P"}

\* f occurs in t as a contiguous substring when case is ignored
OccursIgnoringCase(f, t) ==
  \E a \in 0..(Len(t) - Len(f)) :
    \A m \in 1..Len(f) : SameLetter(t[a + m], f[m])

SwapCaseChar(c) ==
  CASE c = "x" -> "X"
    [] c = "X" -> "x"
    [] c = "p" -> "P"
    [] c = "P" -> "p"
    [] OTHER -> c

SwapCase(s) ==
  IF s = NoTitle THEN s ELSE [m \in 1..Len(s) |-> SwapCaseChar(s[m])]

\* ----------------------------------------------------------------- C11
\* C11: a title is matched exactly when, case ignored, it contains at least
\* one pattern as a substring; swapping the case of the title and of every
\* pattern does not change the outcome; an absent or empty title is never
\* matched by non-empty patterns.
C11_MatchIffSubstring ==
  (mt.step = "done") =>
    LET t == IF mt.title = NoTitle THEN <<>> ELSE mt.title
    IN  /\ mt.res <=> \E k \in 1..Len(mt.filters) :
                        OccursIgnoringCase(mt.filters[k], t)
        /\ mt.res <=> AnyMatch(TitleLower(SwapCase(mt.title)),
                               FiltersLower([k \in 1..Len(mt.filters) |->
                                               SwapCase(mt.filters[k])]))
        /\ (t = <<>> /\ \A k \in 1..Len(mt.filters) : mt.filters[k] # <<>>)
             => ~mt.res

\* an upper-case title was matched by the second, differently cased pattern
C11_Witness ==
  /\ mt.step = "done"
  /\ mt.res
  /\ mt.title = <<"X", "p">>
  /\ mt.filters = << <<"X", "X">>, <<"p">> >>
\* ======================================================================
\* The forward-iterating clean of Bookmark/app.py (lines 25-49).  Its frames
\* hold its locals i, count, child, sub_count and s.  app.py has no worker:
\* an exception leaves remove_filtered_bookmarks, which q records as a
\* failed result.
FwdFrame(k, p) ==
  [parent |-> p, i |-> 0, count |-> GetNumChildren(k, p), phase |-> "loop",
   child |-> None, sub_count |-> 0, s |-> 0,
   snap |-> <<>>, csnap |-> <<>>]   \* snap, csnap: history of the lists at test time

\* a clean that swallows the exception and goes on to doc.Save
RaiseAs(err) ==
  /\ pc' = "save"
  /\ stack' = <<>>
  /\ q' = Append(q, Result(FALSE, err))

\* an exception propagates out of clean and of remove_filtered_bookmarks:
\* bookmark_worker (in app.py the request handler) reports the failure
Raise(err) ==
  /\ pc' = "failed"
  /\ stack' = <<>>
  /\ q' = Append(q, Result(FALSE, err))

\* root = doc.GetBookmarkRoot(); if root is None: print(...) else: clean(root)
FwdGetBookmarkRoot ==
  /\ pc = "root"
  /\ IF hasRoot
     THEN pc' = "fclean" /\ stack' = <<FwdFrame(kids, Root)>>
     ELSE pc' = "fsave" /\ stack' = stack
  /\ UNCHANGED <<kids, title, hasRoot, filters, hostMoves, q, calls, tested,
                 lastOp, kids0, run, log, ext>>

\* while i < count is false: clean returns to its caller
FwdReturn ==
  /\ pc = "fclean"
  /\ Top.phase = "loop"
  /\ ~(Top.i < Top.count)
  /\ stack' = SubSeq(stack, 1, Len(stack) - 1)
  /\ pc' = IF Len(stack) = 1 THEN "fsave" ELSE "fclean"
  /\ UNCHANGED <<kids, title, hasRoot, filters, hostMoves, q, calls, tested,
                 lastOp, kids0, run, log, ext>>

\* child = parent.GetChild(i); clean(child): a None child raises
\* AttributeError at parent.GetNumChildren() of the inner call
FwdVisit ==
  /\ pc = "fclean"
  /\ Top.phase = "loop"
  /\ Top.i < Top.count
  /\ LET c == GetChild(kids, Top.parent, Top.i)
     IN  IF c = None
         THEN Raise("AttributeError")
         ELSE /\ stack' = Append(SetTop([Top EXCEPT !.child = c,
                                                    !.phase = "test"]),
                                 FwdFrame(kids, c))
              /\ UNCHANGED <<pc, q>>
  /\ UNCHANGED <<kids, title, hasRoot, filters, hostMoves, calls, tested,
                 lastOp, kids0, run, log, ext>>

\* title test after the recursion; on a match sub_count = child.GetNumChildren()
FwdTestTitle ==
  /\ pc = "fclean"
  /\ Top.phase = "test"
  /\ tested' = tested \cup {Top.child}
  /\ IF AnyMatch(TitleLower(title[Top.child]), FiltersLower(filters))
     THEN stack' = SetTop([Top EXCEPT
              !.sub_count = GetNumChildren(kids, Top.child),
              !.s = 0,
              !.snap = kids[Top.parent],
              !.csnap = kids[Top.child],
              !.phase = "add"])
     ELSE stack' = SetTop([Top EXCEPT !.i = @ + 1, !.phase = "loop"])
  /\ UNCHANGED <<kids, title, hasRoot, filters, hostMoves, pc, q, calls,
                 lastOp, kids0, run, log, ext>>

\* sub = child.GetChild(s); parent.AddChild(i, sub); i += 1; count += 1.
\* What the library does with a None sub is not known: it raises or it
\* ignores the call.
FwdPromote ==
  /\ pc = "fclean"
  /\ Top.phase = "add"
  /\ Top.s < Top.sub_count
  /\ LET sub == GetChild(kids, Top.child, Top.s)
         step == SetTop([Top EXCEPT !.i = @ + 1, !.count = @ + 1,
                                    !.s = @ + 1])
     IN  /\ calls' = calls + 1
         /\ lastOp' = "AddChild"
         /\ log' = Append(log, <<"AddChild", Top.parent, Top.i, sub>>)
         /\ IF sub # None
            THEN /\ kids' = AddChild(kids, Top.parent, Top.i, sub, hostMoves)
                 /\ stack' = step
                 /\ UNCHANGED <<pc, q>>
            ELSE \E raises \in BOOLEAN :
                   IF raises
                   THEN Raise("AddChild failed") /\ kids' = kids
                   ELSE kids' = kids /\ stack' = step /\ UNCHANGED <<pc, q>>
  /\ UNCHANGED <<title, hasRoot, filters, hostMoves, tested, kids0, run, ext>>

\* a forward clean that removes the entry before index i
FwdRemoveAs ==
  /\ pc = "fclean"
  /\ Top.phase = "add"
  /\ ~(Top.s < Top.sub_count)
  /\ Top.i >= 1
  /\ calls' = calls + 1
  /\ lastOp' = "RemoveChild"
  /\ log' = Append(log, <<"RemoveChild", Top.parent, Top.i - 1>>)
  /\ kids' = RemoveChild(kids, Top.parent, Top.i - 1)
  /\ stack' = SetTop([Top EXCEPT !.count = @ - 1, !.phase = "loop"])
  /\ UNCHANGED <<pc, q>>
  /\ UNCHANGED <<title, hasRoot, filters, hostMoves, tested, kids0, run, ext>>

\* parent.RemoveChild(i); count -= 1; continue.  An index past the end
\* raises or is ignored by the library.
FwdRemove ==
  /\ pc = "fclean"
  /\ Top.phase = "add"
  /\ ~(Top.s < Top.sub_count)
  /\ calls' = calls + 1
  /\ lastOp' = "RemoveChild"
  /\ log' = Append(log, <<"RemoveChild", Top.parent, Top.i>>)
  /\ LET step == SetTop([Top EXCEPT !.count = @ - 1, !.phase = "loop"])
     IN  IF Top.i < GetNumChildren(kids, Top.parent)
         THEN /\ kids' = RemoveChild(kids, Top.parent, Top.i)
              /\ stack' = step
              /\ UNCHANGED <<pc, q>>
         ELSE \E raises \in BOOLEAN :
                IF raises
                THEN Raise("RemoveChild failed") /\ kids' = kids
                ELSE kids' = kids /\ stack' = step /\ UNCHANGED <<pc, q>>
  /\ UNCHANGED <<title, hasRoot, filters, hostMoves, tested, kids0, run, ext>>

\* doc.Save(output_pdf, kSaveFull); doc.Close()
FwdSave ==
  /\ pc = "fsave"
  /\ \E ok \in BOOLEAN :
       IF ok
       THEN pc' = "fdone" /\ q' = Append(q, Result(TRUE, "None"))
       ELSE pc' = "failed" /\ q' = Append(q, Result(FALSE, "Save failed"))
  /\ UNCHANGED <<kids, title, hasRoot, filters, hostMoves, stack, calls,
                 tested, lastOp, kids0, run, log, ext>>

\* ----------------------------------------------------------------------
\* Both variants on the same document: the backward clean runs first, its
\* tree is kept in kidsB, the document is opened afresh and the forward
\* clean runs on it.
StartForward ==
  /\ pc = "save"
  /\ kidsB' = kids
  /\ kids' = kids0
  /\ pc' = "root2"
  /\ calls' = 0
  /\ tested' = {}
  /\ lastOp' = "none"
  /\ log' = <<>>
  /\ UNCHANGED <<title, hasRoot, filters, hostMoves, stack, q, kids0, run,
                 skipped, mt, req, fs, now, pl>>

FwdRootAgain ==
  /\ pc = "root2"
  /\ IF hasRoot
     THEN pc' = "fclean" /\ stack' = <<FwdFrame(kids, Root)>>
     ELSE pc' = "fsave" /\ stack' = stack
  /\ UNCHANGED <<kids, title, hasRoot, filters, hostMoves, q, calls, tested,
                 lastOp, kids0, run, log, ext>>

NextBoth ==
  \/ OpenDoc
  \/ GetBookmarkRoot
  \/ Return
  \/ Visit
  \/ TestTitle
  \/ Promote
  \/ RemoveFiltered
  \/ StartForward
  \/ FwdRootAgain
  \/ FwdReturn
  \/ FwdVisit
  \/ FwdTestTitle
  \/ FwdPromote
  \/ FwdRemove
  \/ FwdSave

SpecBoth == Init /\ [][NextBoth]_vars
\* the forward clean has returned
AfterForward ==
  pc \in {"fsave", "fdone"}

\* the trees below the root are the same: same nodes, same child lists
SameTree(k1, k2) ==
  /\ Reach(k1) = Reach(k2)
  /\ \A n \in Reach(k1) : k1[n] = k2[n]

\* an exception has left clean
CleanRaised ==
  \E m \in 1..Len(q) :
    q[m].error \in {"AttributeError", "AddChild failed", "RemoveChild failed"}

\* ----------------------------------------------------------------- C19
\* C19: with an AddChild that re-parents the inserted node, the forward
\* clean of app.py ends, for every input tree and FilterSpec, with the tree
\* the backward clean ends with.
C19_ForwardEqualsBackward ==
  hostMoves =>
    /\ ~CleanRaised
    /\ AfterForward => SameTree(kids, kidsB)

\* the same comparison for a library whose AddChild only inserts
C19_InsertOnlyHost ==
  ~hostMoves =>
    /\ ~CleanRaised
    /\ AfterForward => SameTree(kids, kidsB)
\* ----------------------------------------------------------------- C20
\* what the forward clean's promotion of the matched child of frame f must
\* do: f.child is at index i when RemoveChild(i) is called, the parent's
\* list becomes its list at test time with the child replaced in place by
\* the child's children in order, and index i then holds the sibling that
\* followed the child (or the loop is over)
ForwardPromotionSound(f, k2, f2) ==
  LET i0 == f.i - f.sub_count
  IN  /\ GetChild(kids, f.parent, f.i) = f.child
      /\ k2[f.parent] = SubSeq(f.snap, 1, i0) \o f.csnap
                        \o SubSeq(f.snap, i0 + 2, Len(f.snap))
      /\ f2.i = f.i
      /\ IF i0 + 2 <= Len(f.snap)
         THEN GetChild(k2, f.parent, f2.i) = f.snap[i0 + 2]
         ELSE ~(f2.i < f2.count)

\* C20: in the forward clean, when the child at index i matches, all its
\* children are inserted into the parent at the child's position in their
\* order, RemoveChild(i) then removes exactly the matched child, count is
\* the parent's real child count at every loop test, and after the removal
\* i designates the next original sibling not yet visited.
C20_ForwardIndexSound ==
  /\ []((pc = "fclean" /\ Top.phase = "loop")
          => Top.count = GetNumChildren(kids, Top.parent))
  /\ [][FwdRemove =>
          /\ pc' = "fclean"
          /\ ForwardPromotionSound(Top, kids', stack'[Len(stack)])]_vars

\* the same statement for a library whose AddChild only inserts
C20_InsertOnlyHost ==
  /\ []((~hostMoves /\ pc = "fclean" /\ Top.phase = "loop")
          => Top.count = GetNumChildren(kids, Top.parent))
  /\ [][(~hostMoves /\ FwdRemove) =>
          /\ pc' = "fclean"
          /\ ForwardPromotionSound(Top, kids', stack'[Len(stack)])]_vars
\* ======================================================================
\* The filter on a library that misbehaves: GetChild may return None for an
\* index in range, AddChild and RemoveChild may raise.  The run is either
\* the backward clean (Api_bookmark_v1.py, Bookmark_URL_v1.py) or the
\* forward clean (app.py).
MaxFaults == 1

\* child = parent.GetChild(i); if child is None: continue
VisitNone ==
  /\ pc = "clean"
  /\ Top.phase = "loop"
  /\ Top.i >= 0
  /\ Top.i < GetNumChildren(kids, Top.parent)
  /\ Cardinality(skipped) < MaxFaults
  /\ skipped' = skipped \cup {GetChild(kids, Top.parent, Top.i)}
  /\ stack' = SetTop([Top EXCEPT !.i = @ - 1, !.child = None])
  /\ UNCHANGED <<core_but_stack, kidsB, mt, req, fs, now, pl>>

\* parent.AddChild(insert_pos, sub) raises: the exception leaves clean and
\* remove_filtered_bookmarks and bookmark_worker puts the failure
PromoteRaises ==
  /\ pc = "clean"
  /\ Top.phase = "add"
  /\ Top.j <= Len(Top.grandchildren)
  /\ calls' = calls + 1
  /\ lastOp' = "AddChild"
  /\ log' = Append(log, <<"AddChild", Top.parent, Top.insert_pos,
                          Top.grandchildren[Top.j]>>)
  /\ Raise("AddChild failed")
  /\ UNCHANGED <<kids, title, hasRoot, filters, hostMoves, tested, kids0,
                 run, ext>>

\* parent.RemoveChild(i) raises
RemoveRaises ==
  /\ pc = "clean"
  /\ Top.phase = "add"
  /\ Top.j > Len(Top.grandchildren)
  /\ calls' = calls + 1
  /\ lastOp' = "RemoveChild"
  /\ log' = Append(log, <<"RemoveChild", Top.parent, Top.i>>)
  /\ Raise("RemoveChild failed")
  /\ UNCHANGED <<kids, title, hasRoot, filters, hostMoves, tested, kids0,
                 run, ext>>

\* app.py: child = parent.GetChild(i) is None; clean(child) calls
\* parent.GetNumChildren() on None and raises AttributeError
FwdVisitNone ==
  /\ pc = "fclean"
  /\ Top.phase = "loop"
  /\ Top.i < Top.count
  /\ Top.i < GetNumChildren(kids, Top.parent)
  /\ Cardinality(skipped) < MaxFaults
  /\ skipped' = skipped \cup {GetChild(kids, Top.parent, Top.i)}
  /\ Raise("AttributeError")
  /\ UNCHANGED <<kids, title, hasRoot, filters, hostMoves, calls, tested,
                 lastOp, kids0, run, log, kidsB, mt, req, fs, now, pl>>

NextFaulty ==
  \/ OpenDoc
  \/ GetBookmarkRoot
  \/ Return
  \/ Visit
  \/ VisitNone
  \/ TestTitle
  \/ Promote
  \/ PromoteRaises
  \/ RemoveFiltered
  \/ RemoveRaises
  \/ Save
  \/ FwdGetBookmarkRoot
  \/ FwdReturn
  \/ FwdVisit
  \/ FwdVisitNone
  \/ FwdTestTitle
  \/ FwdPromote
  \/ FwdRemove
  \/ FwdSave

SpecFaulty == Init /\ [][NextFaulty]_vars
\* ----------------------------------------------------------------- C12
\* a result that reports a failed host call is on the queue
HostRaised ==
  \E m \in 1..Len(q) : q[m].error \in {"AddChild failed", "RemoveChild failed"}

\* C12: once a host call has raised during clean, no further AddChild or
\* RemoveChild call is made and nothing is retried, doc.Save is never
\* reached, and the queue holds exactly one result, with success = False.
C12_HostRaiseSurfaces ==
  /\ [](HostRaised =>
          /\ pc = "failed"
          /\ stack = <<>>
          /\ Len(q) = 1
          /\ q[1].success = FALSE)
  /\ [][HostRaised => (calls' = calls /\ log' = log /\ kids' = kids)]_vars

\* the host call raised after an earlier promotion had already changed the
\* tree: the document in memory is half filtered
C12_Witness ==
  /\ HostRaised
  /\ pc = "failed"
  /\ calls >= 2
  /\ kids # kids0
  /\ q = <<Result(FALSE, "RemoveChild failed")>>

\* ----------------------------------------------------------------- C13
\* the children parent p had when the document was opened
Siblings0(n) ==
  UNION {{kids0[p][m] : m \in 1..Len(kids0[p])} :
           p \in {r \in Nodes : \E m \in 1..Len(kids0[r]) : kids0[r][m] = n}}

CleanReturned ==
  pc \in {"save", "done", "fsave", "fdone"}

\* C13: when GetChild(i) returns None for a sibling index during clean,
\* nothing is raised, the index is skipped, and every other sibling of that
\* parent is still recursed into and tested.
C13_NoneChildSkipped ==
  /\ [][skipped' # skipped => pc' # "failed"]_vars
  /\ [](CleanReturned =>
          \A n \in skipped : \A m \in Siblings0(n) \ skipped : m \in tested)

\* the same statement for the backward clean alone
C13_BackwardSkips ==
  /\ [][(pc = "clean" /\ skipped' # skipped) => pc' = "clean"]_vars
  /\ [](pc \in {"save", "done"} =>
          \A n \in skipped : \A m \in Siblings0(n) \ skipped : m \in tested)
\* ----------------------------------------------------------------- C14
\* the calls the input determines: below n, the children are handled last
\* to first; a matched child c at 1-based position m, once everything below
\* it is done, has its surviving children added at 0-based positions m,
\* m + 1, ... and is then removed from 0-based position m - 1
RECURSIVE ExpectedCalls(_, _)
ExpectedCalls(n, fuel) ==
  IF fuel = 0 THEN <<>>
  ELSE Flatten([r \in 1..Len(kids0[n]) |->
         LET m == Len(kids0[n]) + 1 - r
             c == kids0[n][m]
             g == FilterKids(c, MaxNodes + 1)
         IN  ExpectedCalls(c, fuel - 1)
             \o (IF Matched(c)
                 THEN [j \in 1..Len(g) |-> <<"AddChild", n, m + j - 1, g[j]>>]
                      \o << <<"RemoveChild", n, m - 1>> >>
                 ELSE <<>>)])

\* C14: the sequence of AddChild/RemoveChild calls clean has made when it
\* returns, and the tree it leaves, are functions of the input tree and the
\* FilterSpec alone: any two runs on the same input make the same calls in
\* the same order and end with the same tree.
C14_Deterministic ==
  AfterClean =>
    /\ log = (IF hasRoot THEN ExpectedCalls(Root, MaxNodes + 1) ELSE <<>>)
    /\ hasRoot => \A n \in Reach(kids) : kids[n] = FilterKids(n, MaxNodes + 1)

\* a run that made several promoting calls at more than one level
C14_Witness ==
  /\ AfterClean
  /\ Len(log) >= 4
  /\ \E a, b \in 1..Len(log) : log[a][2] # log[b][2]
  /\ \E a \in 1..Len(log) : log[a][1] = "AddChild" /\ log[a][3] >= 2
\* ======================================================================
\* The request handler filter_bookmarks of Api_bookmark_v1.py (lines
\* 83-157; Bookmark_URL_v1.py lines 148-206 has the same steps) serving
\* several uploads at once.  fs is the upload folder: which path holds a
\* file and which request wrote it.  Time advances in steps of the join
\* timeout.
MaxReqs == 2
MaxTicks == 1
JoinSeconds == 60

Reqs == 1..MaxReqs

\* the uploaded file names, without their .pdf extension
RawNames ==
  {<<"a", " ", "b">>, <<"a", "_", "b">>, <<"c">>}

\* werkzeug's secure_filename: white space becomes an underscore
SecureFilename(raw) ==
  [m \in 1..Len(raw) |-> IF raw[m] = " " THEN "_" ELSE raw[m]]

\* input_path = UPLOAD_FOLDER / f"input_{stamp}_{filename}"
InputPath(rq) ==
  [prefix |-> "input", stamp |-> rq.stamp, filename |-> rq.name]

\* output_path = UPLOAD_FOLDER / f"{name}_output{ext}"
OutputPath(rq) ==
  [prefix |-> "", stamp |-> -1, filename |-> rq.name \o <<"_output">>]

Exists(path) ==
  \E e \in fs : e.path = path

WriteFile(path, r) ==
  {e \in fs : e.path # path} \cup {[path |-> path, by |-> r]}

RemoveFile(path) ==
  {e \in fs : e.path # path}

\* the request that wrote the file at path, 0 when there is no file
WriterOf(path) ==
  IF Exists(path) THEN (CHOOSE e \in fs : e.path = path).by ELSE 0

NewReq ==
  [step |-> "new", name |-> <<>>, stamp |-> 0,
   success |-> FALSE, resp |-> "none", served |-> 0, read |-> 0]

InitHandler ==
  /\ CoreIdle
  /\ skipped = {}
  /\ kidsB = [n \in Nodes |-> <<>>]
  /\ mt = [step |-> "idle"]
  /\ req = [r \in Reqs |-> NewReq]
  /\ fs = {}
  /\ now = 0
  /\ pl = [step |-> "idle"]

\* the clock
Tick ==
  /\ now < MaxTicks * JoinSeconds
  /\ now' = now + JoinSeconds
  /\ UNCHANGED <<core, skipped, kidsB, mt, req, fs, pl>>

\* lines 95-114: the paths are derived, the upload is saved, the worker is
\* started and the handler waits in p.join(60)
Upload(r) ==
  /\ req[r].step = "new"
  /\ \E raw \in RawNames :
       LET rq == [req[r] EXCEPT !.step = "w_start",
                                !.name = SecureFilename(raw),
                                !.stamp = now]
       IN  /\ req' = [req EXCEPT ![r] = rq]
           /\ fs' = WriteFile(InputPath(rq), r)
  /\ UNCHANGED <<core, skipped, kidsB, mt, now, pl>>

\* lines 95-111 and 155-157: the upload is saved, then mp.Queue() or
\* p.start() raises; the except clause answers with the error
StartFails(r) ==
  /\ req[r].step = "new"
  /\ \E raw \in RawNames :
       LET rq == [req[r] EXCEPT !.step = "done",
                                !.name = SecureFilename(raw),
                                !.stamp = now,
                                !.resp = "error"]
       IN  /\ req' = [req EXCEPT ![r] = rq]
           /\ fs' = WriteFile(InputPath(rq), r)
  /\ UNCHANGED <<core, skipped, kidsB, mt, now, pl>>

\* the worker process ends without putting a result (it is killed or
\* crashes in the library)
WorkerDies(r) ==
  /\ req[r].step \in {"w_start", "w_open", "w_wrote"}
  /\ req' = [req EXCEPT ![r].step = "w_exit", ![r].success = FALSE]
  /\ UNCHANGED <<core, skipped, kidsB, mt, fs, now, pl>>

\* the worker: pdfix.OpenDoc(input_pdf, "") reads the input file
WorkerOpen(r) ==
  /\ req[r].step = "w_start"
  /\ IF Exists(InputPath(req[r]))
     THEN req' = [req EXCEPT ![r].step = "w_open",
                             ![r].read = WriterOf(InputPath(req[r]))]
     ELSE req' = [req EXCEPT ![r].step = "w_exit", ![r].success = FALSE]
  /\ UNCHANGED <<core, skipped, kidsB, mt, fs, now, pl>>

\* the worker: doc.Save(output_pdf, kSaveFull) writes the output file, or
\* the filtering fails before it
WorkerSave(r) ==
  /\ req[r].step = "w_open"
  /\ \E ok \in BOOLEAN :
       IF ok
       THEN /\ fs' = WriteFile(OutputPath(req[r]), r)
            /\ req' = [req EXCEPT ![r].step = "w_wrote"]
       ELSE /\ fs' = fs
            /\ req' = [req EXCEPT ![r].step = "w_exit", ![r].success = FALSE]
  /\ UNCHANGED <<core, skipped, kidsB, mt, now, pl>>

\* the worker: q.put({"success": True, "error": None}) and the process ends
WorkerPut(r) ==
  /\ req[r].step = "w_wrote"
  /\ req' = [req EXCEPT ![r].step = "w_exit", ![r].success = TRUE]
  /\ UNCHANGED <<core, skipped, kidsB, mt, fs, now, pl>>
\* the worker process of the request is alive
Alive(rq) ==
  rq.step \in {"w_start", "w_open", "w_wrote"}

\* a handler that leaves the output file behind after a timeout
TRemoveOutputAs(r) ==
  /\ req[r].step = "t_rm_in"
  /\ fs' = fs
  /\ req' = [req EXCEPT ![r].step = "done", ![r].resp = "timeout"]
  /\ UNCHANGED <<core, skipped, kidsB, mt, now, pl>>

\* lines 127-133 (timeout branch): if os.path.exists(output_path):
\* os.remove(output_path); return the failure response (504; 500 in
\* Bookmark_URL_v1.py)
TRemoveOutput(r) ==
  /\ req[r].step = "t_rm_in"
  /\ fs' = RemoveFile(OutputPath(req[r]))
  /\ req' = [req EXCEPT ![r].step = "done", ![r].resp = "timeout"]
  /\ UNCHANGED <<core, skipped, kidsB, mt, now, pl>>

\* lines 114-121: p.join(60) has returned after 60 seconds and
\* p.is_alive(): p.terminate(); p.join()
JoinTimeout(r) ==
  /\ Alive(req[r])
  /\ now - req[r].stamp >= JoinSeconds
  /\ req' = [req EXCEPT ![r].step = "t_killed"]
  /\ UNCHANGED <<core, skipped, kidsB, mt, fs, now, pl>>

\* lines 124-125: if os.path.exists(input_path): os.remove(input_path)
TRemoveInput(r) ==
  /\ req[r].step = "t_killed"
  /\ fs' = RemoveFile(InputPath(req[r]))
  /\ req' = [req EXCEPT ![r].step = "t_rm_in"]
  /\ UNCHANGED <<core, skipped, kidsB, mt, now, pl>>

\* lines 136-140: the worker has exited: result = q.get() if not q.empty()
\* else the "Unknown processing error" failure; the input file is removed
Finish(r) ==
  /\ req[r].step = "w_exit"
  /\ fs' = RemoveFile(InputPath(req[r]))
  /\ req' = [req EXCEPT ![r].step = "f_got"]
  /\ UNCHANGED <<core, skipped, kidsB, mt, now, pl>>

\* lines 142-155: on failure the output file is removed and the error
\* returned; on success send_file(output_path) serves what is at the path
\* (a missing file raises, and the except clause answers with an error)
Respond(r) ==
  /\ req[r].step = "f_got"
  /\ IF ~req[r].success
     THEN /\ fs' = RemoveFile(OutputPath(req[r]))
          /\ req' = [req EXCEPT ![r].step = "done", ![r].resp = "error"]
     ELSE /\ fs' = fs
          /\ IF Exists(OutputPath(req[r]))
             THEN req' = [req EXCEPT ![r].step = "done", ![r].resp = "file",
                                     ![r].served = WriterOf(OutputPath(req[r]))]
             ELSE req' = [req EXCEPT ![r].step = "done", ![r].resp = "error"]
  /\ UNCHANGED <<core, skipped, kidsB, mt, now, pl>>

NextHandler ==
  \/ Tick
  \/ \E r \in Reqs : Upload(r)
  \/ \E r \in Reqs : StartFails(r)
  \/ \E r \in Reqs : WorkerDies(r)
  \/ \E r \in Reqs : WorkerOpen(r)
  \/ \E r \in Reqs : WorkerSave(r)
  \/ \E r \in Reqs : WorkerPut(r)
  \/ \E r \in Reqs : JoinTimeout(r)
  \/ \E r \in Reqs : TRemoveInput(r)
  \/ \E r \in Reqs : TRemoveOutput(r)
  \/ \E r \in Reqs : Finish(r)
  \/ \E r \in Reqs : Respond(r)

SpecHandler == InitHandler /\ [][NextHandler]_vars

InFlight(rq) ==
  rq.step \notin {"new", "done"}

\* C16: no file is shared between overlapping requests: a step of request r
\* never deletes or overwrites a file written by another request that is
\* still being handled, r's worker reads only the input r saved, and r
\* serves only the output r's worker wrote.
C16_NothingShared ==
  [][\A r \in Reqs :
       req'[r] # req[r] =>
         /\ \A e \in fs : e \notin fs' => (e.by = r \/ ~InFlight(req[e.by]))
         /\ req'[r].read \in {0, r}
         /\ req'[r].served \in {0, r}
     ]_vars
\* ======================================================================
\* PageNumberSetter.set_page_labels (pagelabel/pdfmodules/transformer.py
\* lines 113-259; pagelabel/app.py lines 530-680 is the same code).  pl holds
\* the arguments, the Nums array of the document's PageLabels dictionary and
\* the locals of the two loops.  An entry of nums is the pair the code puts:
\* the page index and the label dictionary (S and St, or P for the cover).
MaxPages == 4
MaxRoman == 3
MaxSkip == 3
DefaultRomanMax == 24

\* the documents' page counts: the small ones and one with more pages than
\* the default roman maximum covers
PageCounts ==
  (0..MaxPages) \cup {DefaultRomanMax + 2}

Min2(a, b) ==
  IF a < b THEN a ELSE b

Max2(a, b) ==
  IF a > b THEN a ELSE b

\* lines 153-157: the default for an absent roman_pages_count and
\* roman_max_num = max(0, roman_pages_count)
RomanMaxNumAs(given, count, num_pages) ==
  IF given THEN Max2(0, count) ELSE Max2(0, num_pages - 1)

RomanMaxNum(given, count, num_pages) ==
  Max2(0, IF given THEN count
          ELSE Min2(DefaultRomanMax, Max2(0, num_pages - 1)))

\* an entry of Nums: the page index and its label dictionary
Label(idx, style, st, prefix) ==
  [idx |-> idx, S |-> style, St |-> st, P |-> prefix]

\* what the document holds in Nums before the call
StaleNums ==
  {<<>>, <<Label(0, "D", 5, ""), Label(2, "r", 1, "")>>}

InitLabels ==
  /\ CoreIdle
  /\ skipped = {}
  /\ kidsB = [n \in Nodes |-> <<>>]
  /\ mt = [step |-> "idle"]
  /\ req = <<>>
  /\ fs = {}
  /\ now = 0
  /\ \E n \in PageCounts : \E given \in BOOLEAN :
     \E c \in (IF given THEN -1..MaxRoman ELSE {0}) :
     \E rs \in SUBSET (1..MaxSkip) : \E as \in SUBSET (1..MaxSkip) :
     \E old \in StaleNums :
       pl = [step |-> "ready", num_pages |-> n, given |-> given, count |-> c,
             roman_skip |-> rs, arabic_skip |-> as, nums |-> old,
             before |-> old,
             roman_max_num |-> 0, page_idx |-> 0, roman_num |-> 0,
             printed_arabic |-> 0]

\* a start that puts the cover entry without clearing Nums
LabelStartAs ==
  /\ pl.step = "ready"
  /\ IF pl.num_pages = 0
     THEN pl' = [pl EXCEPT !.step = "failed"]
     ELSE pl' = [pl EXCEPT
            !.step = "roman",
            !.roman_max_num = RomanMaxNum(pl.given, pl.count, pl.num_pages),
            !.nums = Append(@, Label(0, "", 0, "Cover")),
            !.page_idx = 1,
            !.roman_num = 1]
  /\ UNCHANGED <<core, skipped, kidsB, mt, req, fs, now>>

\* lines 146-184: no page raises; roman_max_num; Nums is cleared; the cover
\* entry; the roman loop's variables
LabelStart ==
  /\ pl.step = "ready"
  /\ IF pl.num_pages = 0
     THEN pl' = [pl EXCEPT !.step = "failed"]
     ELSE pl' = [pl EXCEPT
            !.step = "roman",
            !.roman_max_num = RomanMaxNum(pl.given, pl.count, pl.num_pages),
            !.nums = <<Label(0, "", 0, "Cover")>>,
            !.page_idx = 1,
            !.roman_num = 1]
  /\ UNCHANGED <<core, skipped, kidsB, mt, req, fs, now>>

\* line 186-189: the roman loop's test; when it fails, lines 210-215
RomanTest ==
  /\ pl.step = "roman"
  /\ IF pl.page_idx < pl.num_pages /\ pl.roman_num <= pl.roman_max_num
     THEN pl' = [pl EXCEPT !.step = "rskip"]
     ELSE pl' = [pl EXCEPT !.step = "arabic0"]
  /\ UNCHANGED <<core, skipped, kidsB, mt, req, fs, now>>

\* lines 191-192: while current_roman_num in roman_skip and ... : += 1
RomanSkip ==
  /\ pl.step = "rskip"
  /\ pl.roman_num \in pl.roman_skip
  /\ pl.roman_num <= pl.roman_max_num
  /\ pl' = [pl EXCEPT !.roman_num = @ + 1]
  /\ UNCHANGED <<core, skipped, kidsB, mt, req, fs, now>>

\* lines 194-195: if current_roman_num > roman_max_num: break
RomanBreak ==
  /\ pl.step = "rskip"
  /\ ~(pl.roman_num \in pl.roman_skip /\ pl.roman_num <= pl.roman_max_num)
  /\ pl.roman_num > pl.roman_max_num
  /\ pl' = [pl EXCEPT !.step = "arabic0"]
  /\ UNCHANGED <<core, skipped, kidsB, mt, req, fs, now>>

\* lines 197-206: the roman entry for this page; next page, next number
RomanEmit ==
  /\ pl.step = "rskip"
  /\ ~(pl.roman_num \in pl.roman_skip /\ pl.roman_num <= pl.roman_max_num)
  /\ ~(pl.roman_num > pl.roman_max_num)
  /\ pl' = [pl EXCEPT
       !.nums = Append(@, Label(pl.page_idx, "r", pl.roman_num, "")),
       !.page_idx = @ + 1,
       !.roman_num = @ + 1,
       !.step = "roman"]
  /\ UNCHANGED <<core, skipped, kidsB, mt, req, fs, now>>
\* lines 210-215: arabic_start_idx = current_page_idx; the arabic section
\* exists if that page exists
ArabicStart ==
  /\ pl.step = "arabic0"
  /\ IF pl.page_idx < pl.num_pages
     THEN pl' = [pl EXCEPT !.step = "arabic", !.printed_arabic = 1]
     ELSE pl' = [pl EXCEPT !.step = "save"]
  /\ UNCHANGED <<core, skipped, kidsB, mt, req, fs, now>>

\* line 217: while page_idx < num_pages
ArabicTest ==
  /\ pl.step = "arabic"
  /\ IF pl.page_idx < pl.num_pages
     THEN pl' = [pl EXCEPT !.step = "askip"]
     ELSE pl' = [pl EXCEPT !.step = "save"]
  /\ UNCHANGED <<core, skipped, kidsB, mt, req, fs, now>>

\* lines 219-220: while printed_arabic in arabic_skip: printed_arabic += 1
ArabicSkip ==
  /\ pl.step = "askip"
  /\ pl.printed_arabic \in pl.arabic_skip
  /\ pl' = [pl EXCEPT !.printed_arabic = @ + 1]
  /\ UNCHANGED <<core, skipped, kidsB, mt, req, fs, now>>

\* an arabic loop that does not look at arabic_skip
ArabicEmitAs ==
  /\ pl.step = "askip"
  /\ pl' = [pl EXCEPT
       !.nums = Append(@, Label(pl.page_idx, "D", pl.printed_arabic, "")),
       !.page_idx = @ + 1,
       !.printed_arabic = @ + 1,
       !.step = "arabic"]
  /\ UNCHANGED <<core, skipped, kidsB, mt, req, fs, now>>

\* lines 222-229: the arabic entry for this page; next page, next number
ArabicEmit ==
  /\ pl.step = "askip"
  /\ pl.printed_arabic \notin pl.arabic_skip
  /\ pl' = [pl EXCEPT
       !.nums = Append(@, Label(pl.page_idx, "D", pl.printed_arabic, "")),
       !.page_idx = @ + 1,
       !.printed_arabic = @ + 1,
       !.step = "arabic"]
  /\ UNCHANGED <<core, skipped, kidsB, mt, req, fs, now>>

\* lines 232-233: doc.Save(output_pdf, kSaveFull)
LabelSave ==
  /\ pl.step = "save"
  /\ \E ok \in BOOLEAN :
       pl' = [pl EXCEPT !.step = IF ok THEN "done" ELSE "failed"]
  /\ UNCHANGED <<core, skipped, kidsB, mt, req, fs, now>>

NextLabels ==
  \/ LabelStart
  \/ RomanTest
  \/ RomanSkip
  \/ RomanBreak
  \/ RomanEmit
  \/ ArabicStart
  \/ ArabicTest
  \/ ArabicSkip
  \/ ArabicEmit
  \/ LabelSave

SpecLabels == InitLabels /\ [][NextLabels]_vars

\* ------------------------------------------------------- label vocabulary
\* the entries of Nums with numbering style st, in array order
EntriesOf(st) ==
  SelectSeq(pl.nums, LAMBDA e : e.S = st)

\* the members of the finite set of numbers S in ascending order
RECURSIVE Ascending(_)
Ascending(S) ==
  IF S = {} THEN <<>>
  ELSE LET lo == CHOOSE x \in S : \A y \in S : x <= y
       IN  <<lo>> \o Ascending(S \ {lo})

\* the roman_pages_count in force: the argument, or its documented default
RomanPagesCount ==
  IF pl.given THEN pl.count
  ELSE IF pl.num_pages - 1 > DefaultRomanMax THEN DefaultRomanMax
       ELSE pl.num_pages - 1

\* both sections are complete
RomanDone ==
  pl.step \in {"arabic0", "arabic", "askip", "save", "done"}

LabelsDone ==
  pl.step \in {"save", "done"}

\* ----------------------------------------------------------------- C17
\* C17: the roman entries sit on consecutive page indices from 1, their
\* start values are the numbers of 1..roman_pages_count outside roman_skip
\* in ascending order, cut short only by the number of pages; none is in
\* roman_skip or above roman_pages_count.
C17_RomanEntries ==
  RomanDone =>
    LET R == EntriesOf("r")
        A == Ascending({n \in 1..RomanPagesCount : n \notin pl.roman_skip})
        k == Min2(Len(A), pl.num_pages - 1)
    IN  /\ Len(R) = k
        /\ \A m \in 1..k : R[m].idx = m /\ R[m].St = A[m]
        /\ \A m \in 1..Len(R) :
             R[m].St \notin pl.roman_skip /\ R[m].St <= RomanPagesCount
        /\ \A m \in 1..Len(R) : pl.nums[m + 1] = R[m]

\* a document with more pages than the default maximum covers, labelled
\* with roman_pages_count absent and 2 in roman_skip
C17_Witness ==
  /\ RomanDone
  /\ ~pl.given
  /\ pl.num_pages = DefaultRomanMax + 2
  /\ 2 \in pl.roman_skip
  /\ Len(EntriesOf("r")) >= 2

\* ----------------------------------------------------------------- C18
\* C18: the arabic entries start on the page after the last roman page
\* (index 1 without roman pages), there is one per remaining page, and their
\* start values are the positive integers outside arabic_skip, ascending
\* from 1.
C18_ArabicEntries ==
  LabelsDone =>
    LET R == EntriesOf("r")
        D == EntriesOf("D")
        first == IF Len(R) = 0 THEN 1 ELSE R[Len(R)].idx + 1
        A == Ascending({n \in 1..(pl.num_pages + MaxSkip) :
                          n \notin pl.arabic_skip})
    IN  /\ Len(D) = Max2(0, pl.num_pages - first)
        /\ \A m \in 1..Len(D) : D[m].idx = first + m - 1 /\ D[m].St = A[m]
        /\ Len(pl.nums) = 1 + Len(R) + Len(D)

\* roman pages are followed by at least two arabic pages and the numbers 1
\* and 3 were skipped
C18_Witness ==
  /\ LabelsDone
  /\ Len(EntriesOf("r")) >= 1
  /\ Len(EntriesOf("D")) >= 2
  /\ {1, 3} \subseteq pl.arabic_skip
  /\ 2 \notin pl.arabic_skip
\* ----------------------------------------------------------------- C21
\* the nodes of the opened document whose title matches no filter
Unmatched0 ==
  {n \in Reach(kids0) \ {Root} : ~Matched(n)}

\* C21: when the forward clean of app.py has returned, every node of the
\* input tree whose title matches no filter is still reachable from the
\* root.
C21_ForwardKeepsUnmatched ==
  (AfterForward /\ hasRoot) => Unmatched0 \subseteq Reach(kids)

\* the forward clean has returned after removing a matched node that had an
\* unmatched child
C21_Witness ==
  /\ AfterForward
  /\ hasRoot
  /\ \E n \in Reach(kids0) \ {Root} :
       /\ Matched(n)
       /\ n \notin Reach(kids)
       /\ \E c \in Range(kids0[n]) : ~Matched(c) /\ c \in Reach(kids)
\* ----------------------------------------------------------------- C22
\* C22: every title test of clean is of a node not tested before, and when
\* clean has returned the tested nodes are exactly the non-root nodes of the
\* input tree: each is tested once, and a child promoted into a parent's
\* list is not tested again at that level.
C22_TestedExactlyOnce ==
  /\ [][(pc = "clean" /\ Top.phase = "test" /\ stack' # stack)
          => (Top.child \notin tested /\ tested' = tested \cup {Top.child})]_vars
  /\ []((AfterClean /\ hasRoot) => tested = Reach(kids0) \ {Root})

\* clean has returned after promoting the children of a matched node into
\* a parent that has other children
C22_Witness ==
  /\ AfterClean
  /\ hasRoot
  /\ \E p \in Reach(kids0) : \E n \in Range(kids0[p]) :
       /\ Matched(n)
       /\ Len(kids0[n]) >= 1
       /\ Len(kids0[p]) >= 2
       /\ Range(kids0[n]) \subseteq Range(kids[p])
       /\ Range(kids0[n]) \subseteq tested
\* ----------------------------------------------------------------- C23
\* the first n entries of the child list of p in tree k
Prefix(k, p, n) ==
  SubSeq(k[p], 1, n)

\* C23: in the backward clean an AddChild or RemoveChild made while index i
\* of a parent is visited leaves the parent's children at indices 0..i-1 as
\* they were, and every index, when it is read, holds the child the opened
\* document had there.
C23_LowerIndicesUntouched ==
  /\ [][(pc = "clean" /\ Top.phase = "add" /\ kids' # kids)
          => Prefix(kids', Top.parent, Top.i) = Prefix(kids, Top.parent, Top.i)]_vars
  /\ []((pc = "clean" /\ Top.phase = "loop" /\ Top.i >= 0)
          => /\ Top.i < Len(kids0[Top.parent])
             /\ GetChild(kids, Top.parent, Top.i) = kids0[Top.parent][Top.i + 1])

\* index 0 is about to be read after a promotion and removal at a higher
\* index of the same parent
C23_Witness ==
  /\ pc = "clean"
  /\ Top.phase = "loop"
  /\ Top.i >= 0
  /\ \E m \in 1..Len(log) :
       log[m][1] = "AddChild" /\ log[m][2] = Top.parent /\ log[m][3] > Top.i
  /\ \E m \in 1..Len(log) :
       log[m][1] = "RemoveChild" /\ log[m][2] = Top.parent /\ log[m][3] > Top.i
\* ----------------------------------------------------------------- C24
\* the proper descendants of n in tree k
Below(k, n) ==
  Closure(k, {n}, MaxNodes + 1) \ {n}

\* a title test is about to be made, by either clean
AtTest ==
  pc \in {"clean", "fclean"} /\ Top.phase = "test"

\* C24: when a child's title is tested, clean(child) has returned, no
\* descendant of the child matches a filter any more, and every descendant
\* the child had in the opened document has been tested.
C24_PostOrder ==
  AtTest =>
    /\ \A d \in Below(kids, Top.child) : ~Matched(d)
    /\ Below(kids0, Top.child) \subseteq tested

\* the same statement for the backward clean alone
C24_BackwardPostOrder ==
  (pc = "clean" /\ Top.phase = "test") =>
    /\ \A d \in Below(kids, Top.child) : ~Matched(d)
    /\ Below(kids0, Top.child) \subseteq tested
\* ----------------------------------------------------------------- C25
\* RemoveChild is about to detach the matched child of the top frame
AtDetach ==
  /\ pc = "clean"
  /\ Top.phase = "add"
  /\ Top.j > Len(Top.grandchildren)

\* C25: when RemoveChild detaches a matched node, every node that was its
\* child is already a child of the node's parent, and the detached node
\* takes no unmatched node of the input out of the tree, at every depth.
C25_NothingCarriedAway ==
  [][(AtDetach /\ kids' # kids) =>
       /\ Range(FilterKids(Top.child, MaxNodes + 1))
            \subseteq Range(kids[Top.parent])
       /\ Top.child \notin Reach(kids')
       /\ Unmatched0 \subseteq Reach(kids')]_vars

\* a matched node with a matched child that had a child of its own has
\* just been detached: the grandchild is now a child of the node's parent
C25_Witness ==
  /\ lastOp = "RemoveChild"
  /\ pc = "clean"
  /\ \E a \in Reach(kids0) \ {Root} : \E b \in Range(kids0[a]) :
       /\ Matched(a)
       /\ Matched(b)
       /\ a \notin Reach(kids)
       /\ \E c \in Range(kids0[b]) : ~Matched(c) /\ c \in Range(kids[Top.parent])
\* ======================================================================
\* The filter as a running process: bookmark_worker runs sequentially in a
\* process of its own, so a step that can be taken is eventually taken.
SpecLive == Init /\ [][Next]_vars /\ WF_vars(Next)

\* ----------------------------------------------------------------- C26
\* the calls of the log with the given operation
CallsOf(op) ==
  SelectSeq(log, LAMBDA e : e[1] = op)

\* the total number of children handed up by the nodes of S
RECURSIVE Promoted(_)
Promoted(S) ==
  IF S = {} THEN 0
  ELSE LET n == CHOOSE x \in S : TRUE
       IN  Len(FilterKids(n, MaxNodes + 1)) + Promoted(S \ {n})

\* C26: clean always terminates; when it has returned it has made one
\* RemoveChild call per matched non-root node and one AddChild call per
\* promoted child, and every non-root node has been processed.
C26_Terminates ==
  /\ (pc = "clean") ~> (pc = "save")
  /\ []((AfterClean /\ hasRoot) =>
          /\ Len(CallsOf("RemoveChild")) = Cardinality(MatchedBelowRoot)
          /\ Len(CallsOf("AddChild")) = Promoted(MatchedBelowRoot)
          /\ calls = Len(log)
          /\ stack = <<>>
          /\ tested = Reach(kids0) \ {Root})

\* clean has returned from a tree of full size in which it removed two
\* nodes and promoted children
C26_Witness ==
  /\ pc = "save"
  /\ Cardinality(Reach(kids0)) = MaxNodes + 1
  /\ Len(CallsOf("RemoveChild")) >= 2
  /\ Len(CallsOf("AddChild")) >= 2
\* ----------------------------------------------------------------- C27
\* the handler of the request has returned its response
Returned(rq) ==
  rq.step = "done"

\* C27: when the handler returns, the input file it saved is gone, whatever
\* the return path.
C27_InputRemoved ==
  \A r \in Reqs :
    Returned(req[r]) =>
      ~\E e \in fs : e.path = InputPath(req[r]) /\ e.by = r

\* ----------------------------------------------------------------- C28
\* C28: the output is served only after the worker exited in time with a
\* queued success; a worker that failed or left no result is answered with
\* a failure and no output file is left; a worker that succeeded in time is
\* never answered with a failure.
C28_ResultDecides ==
  /\ [](\A r \in Reqs :
          /\ (req[r].resp = "file" \/ req[r].served # 0) => req[r].success
          /\ (Returned(req[r]) /\ req[r].success) => req[r].resp = "file")
  /\ [][\A r \in Reqs :
          (req[r].step = "f_got" /\ ~req[r].success /\ req'[r] # req[r])
            => /\ req'[r].resp = "error"
               /\ \A e \in fs' : e.path # OutputPath(req[r])]_vars

\* the first and the second part of C28 alone
C28_ServedOnlyOnSuccess ==
  /\ [](\A r \in Reqs :
          (req[r].resp = "file" \/ req[r].served # 0) => req[r].success)
  /\ [][\A r \in Reqs :
          (req[r].step = "f_got" /\ ~req[r].success /\ req'[r] # req[r])
            => /\ req'[r].resp = "error"
               /\ \A e \in fs' : e.path # OutputPath(req[r])]_vars
\* ----------------------------------------------------------------- C29
\* C29: after a successful set_page_labels on a document with pages, Nums
\* holds one pair per page index 0..num_pages-1 in increasing order, the
\* pair of index 0 has the prefix "Cover", and no entry that was in Nums
\* before the call is left.
C29_OneLabelPerPage ==
  (pl.step = "done" /\ pl.num_pages >= 1) =>
    /\ Len(pl.nums) = pl.num_pages
    /\ \A m \in 1..Len(pl.nums) : pl.nums[m].idx = m - 1
    /\ pl.nums[1].P = "Cover"
    /\ \A m \in 2..Len(pl.nums) : pl.nums[m].P = ""
    /\ \A m \in 1..Len(pl.nums) : pl.nums[m] \notin Range(pl.before)

\* a document that had entries in Nums was labelled with a cover, roman and
\* arabic pages
C29_Witness ==
  /\ pl.step = "done"
  /\ pl.before # <<>>
  /\ Len(EntriesOf("r")) >= 1
  /\ Len(EntriesOf("D")) >= 1
\* ======================================================================
\* int_to_roman (pagelabel/pdfmodules/transformer.py lines 95-106; the same
\* function is at pagelabel/app.py lines 512-523).  pl holds its argument
\* num, the argument as passed (num0), its locals i and roman_num, and the
\* iterations left of the for loop, whose range is evaluated once.
MaxBeyond == 2
RomanLimit == 39

\* the arguments tried: below 1, the documented range, and above it
RomanInputs ==
  (0 - MaxBeyond)..(RomanLimit + MaxBeyond)

\* val = [10, 9, 5, 4, 1]
RomanVal ==
  <<10, 9, 5, 4, 1>>

RomanSymsAs ==
  << <<"x">>, <<"i", "x">>, <<"v">>, <<"i", "i", "i", "i">>, <<"i">> >>

\* syms = ['x', 'ix', 'v', 'iv', 'i']
RomanSyms ==
  << <<"x">>, <<"i", "x">>, <<"v">>, <<"i", "v">>, <<"i">> >>

InitRoman ==
  /\ CoreIdle
  /\ skipped = {}
  /\ kidsB = [n \in Nodes |-> <<>>]
  /\ mt = [step |-> "idle"]
  /\ req = <<>>
  /\ fs = {}
  /\ now = 0
  /\ \E n \in RomanInputs :
       pl = [step |-> "while", num |-> n, num0 |-> n, i |-> 0,
             roman_num |-> <<>>, left |-> 0]

\* while num > 0 and i < len(val): the for loop's range(num // val[i]) is
\* evaluated; otherwise return roman_num or ""
RomanWhile ==
  /\ pl.step = "while"
  /\ IF pl.num > 0 /\ pl.i < Len(RomanVal)
     THEN pl' = [pl EXCEPT !.step = "for",
                           !.left = pl.num \div RomanVal[pl.i + 1]]
     ELSE pl' = [pl EXCEPT !.step = "returned"]
  /\ UNCHANGED <<core, skipped, kidsB, mt, req, fs, now>>

\* for _ in range(...): roman_num += syms[i]; num -= val[i]
RomanFor ==
  /\ pl.step = "for"
  /\ pl.left > 0
  /\ pl' = [pl EXCEPT !.roman_num = @ \o RomanSyms[pl.i + 1],
                      !.num = @ - RomanVal[pl.i + 1],
                      !.left = @ - 1]
  /\ UNCHANGED <<core, skipped, kidsB, mt, req, fs, now>>

\* the for loop is exhausted: i += 1
RomanNext ==
  /\ pl.step = "for"
  /\ pl.left = 0
  /\ pl' = [pl EXCEPT !.i = @ + 1, !.step = "while"]
  /\ UNCHANGED <<core, skipped, kidsB, mt, req, fs, now>>

NextRoman ==
  \/ RomanWhile
  \/ RomanFor
  \/ RomanNext

\* the function runs to its end once called
SpecRoman == InitRoman /\ [][NextRoman]_vars /\ WF_vars(NextRoman)

\* ----------------------------------------------------------------- C30
\* the numerals of the units 1..9
UnitNumerals ==
  << <<"i">>, <<"i", "i">>, <<"i", "i", "i">>, <<"i", "v">>, <<"v">>,
     <<"v", "i">>, <<"v", "i", "i">>, <<"v", "i", "i", "i">>, <<"i", "x">> >>

\* the standard lowercase numeral of n in 1..39: an x per ten, then the unit
StandardRoman(n) ==
  [m \in 1..(n \div 10) |-> "x"]
    \o (IF n % 10 = 0 THEN <<>> ELSE UnitNumerals[n % 10])

\* C30: int_to_roman returns the standard lowercase numeral for 1..39 and
\* the empty string for an argument below 1, and it returns for every
\* argument.
C30_IntToRoman ==
  /\ []((pl.step = "returned" /\ pl.num0 >= 1 /\ pl.num0 <= RomanLimit)
          => pl.roman_num = StandardRoman(pl.num0))
  /\ []((pl.step = "returned" /\ pl.num0 <= 0) => pl.roman_num = <<>>)
  /\ <>(pl.step = "returned")

\* 39 has been converted, with every symbol but v used
C30_Witness ==
  /\ pl.step = "returned"
  /\ pl.num0 = RomanLimit
  /\ Len(pl.roman_num) = 5
====
